---- MODULE Spec2Model ----
(***************************************************************************)
(* Cloud resource abstraction layer of fast_api_template:                  *)
(*   config/cloud.py                  CloudProvider, CloudConfig           *)
(*   cloud/cloud_service_provider.py  CloudServiceProvider (factory)       *)
(*   cloud/{local,hetzner,custom,azure,gcp,aws}.py  the implementations    *)
(* and its module registry:                                                *)
(*   utils/registry.py                ModuleRegistry                       *)
(*                                                                         *)
(* Encoding of Python values.                                              *)
(*   - a dict is a function whose domain is its set of string keys;        *)
(*   - a leaf value (str, int, None inside a dict) is a string, with the   *)
(*     string "None" for Python's None and "6379" for the int 6379;        *)
(*   - an object-level None (a view, a client handle, a config, a service  *)
(*     that is None) is the record NoneObj, so that it can be compared     *)
(*     with dicts and records;                                             *)
(*   - a client handle is a record naming the constructor that built it    *)
(*     and the arguments the code passed to it.                            *)
(* The settings store is a function from the dotted keys that are set to   *)
(* their values; get(key, default) is Get.                                 *)
(***************************************************************************)
EXTENDS Integers, Sequences, FiniteSets, TLC

VARIABLES
    libs,       \* the client libraries importable in this process
    settings,   \* the settings store the CloudConfig reads
    nsets,      \* number of writes made to the settings store
    config,     \* the CloudConfig instance the caller holds, or NoneObj
    service,    \* the CloudService instance the caller holds, or NoneObj
    last,       \* the most recent call: operation, argument, outcome
    prev,       \* the call before it, where calls are compared in pairs
    threads,    \* the caller threads and the interpreter they run in, or
                \* NoneObj where one caller makes one call at a time
    registry    \* the ModuleRegistry instance and the modules it holds

vars == <<libs, settings, nsets, config, service, last, prev, threads, registry>>

\* ------------------------------------------------------------------ bounds
MaxSets == 2
MaxMissing == 1

\* ------------------------------------------------------------ Python values
None == "None"
NoneObj == [None |-> "None"]
EmptyDict == [k \in {} |-> "None"]

\* dict.get(k, default)
DictGet(d, k, default) == IF k \in DOMAIN d THEN d[k] ELSE default

\* bool(d) for a value that is a dict or None
Truthy(d) == d # NoneObj /\ DOMAIN d # {}

\* bool(s) for a value that is a str or None
TruthyStr(s) == s # None /\ s # ""

\* ----------------------------------------------------------------- settings
\* settings.get(dotted_key, default): the key is split at the dots and the
\* nested mappings are descended one component at a time; the default is
\* returned as soon as a component is missing.  A key is written here as the
\* sequence of its components.
RECURSIVE Lookup(_, _, _)
Lookup(d, path, default) ==
    IF path = << >> THEN d
    ELSE IF Head(path) \in DOMAIN d
         THEN Lookup(d[Head(path)], Tail(path), default)
         ELSE default

Get(s, k, default) == Lookup(s, k, default)

\* settings.get("cloud.custom", {}): the mapping stored below cloud.custom
GetCustom(s) == Get(s, <<"cloud", "custom">>, EmptyDict)

\* settings.get("cloud.custom.<kind>", {})
GetCustomKind(s, kind) == Get(s, <<"cloud", "custom", kind>>, EmptyDict)

\* caller-supplied factory objects: two functions and a truthy non-callable
MakeClient == [fn |-> "make_client", callable |-> TRUE]
MakeNone == [fn |-> "make_none", callable |-> TRUE]
NotCallable == [fn |-> "not_callable", callable |-> FALSE]
NoFactory == [fn |-> "None", callable |-> FALSE]

\* what the caller's factory function returns for the argument it receives
FactoryReturn(f, arg) ==
    IF f.fn = "make_client"
    THEN [client |-> "factory", fn |-> f.fn, arg |-> arg]
    ELSE NoneObj

\* the mappings the model stores below cloud.custom
CustomMappings ==
    {[storage |-> [type |-> "minio"], storage_client_factory |-> MakeClient],
     [storage_client_factory |-> MakeClient,
      cache_client_factory |-> MakeClient,
      queue_client_factory |-> MakeClient],
     [storage |-> [endpoint |-> "nas:9000"], storage_client_factory |-> MakeNone,
      cache |-> [type |-> "redis"], cache_client_factory |-> MakeClient,
      queue |-> [type |-> "rabbitmq"], queue_client_factory |-> MakeClient],
     [storage |-> [type |-> "minio"], cache |-> [type |-> "redis"],
      queue |-> [type |-> "rabbitmq"]],
     [storage |-> [type |-> "minio"], storage_client_factory |-> NotCallable],
     [storage |-> EmptyDict, storage_client_factory |-> MakeClient]}

\* the mappings the model stores below cloud.hetzner
HetznerMappings ==
    {[api_token |-> "tok"],
     [api_token |-> "tok", cache |-> [host |-> "10.0.0.2"],
      queue |-> [host |-> "10.0.0.3"]]}

\* the children of the `cloud` node the model writes
SettingKeys == {"provider", "region", "aws", "azure", "hetzner", "custom"}

\* the values the model writes to each of them
SettingValues(k) ==
    CASE k = "provider" ->
            {"aws", "gcp", "azure", "hetzner", "custom", "local",
             "digitalocean", "AWS"}
      [] k = "region" -> {"us-west-2"}
      [] k = "aws" -> {[profile |-> "dev"]}
      [] k = "azure" -> {[connection_string |-> "Endpoint=sb://x"]}
      [] k = "hetzner" -> HetznerMappings
      [] k = "custom" -> CustomMappings

\* the settings after `cloud.<k>` is set to v
WithSetting(s, k, v) ==
    LET cloud == IF "cloud" \in DOMAIN s THEN s["cloud"] ELSE EmptyDict
    IN [cloud |-> [x \in DOMAIN cloud \cup {k} |->
                        IF x = k THEN v ELSE cloud[x]]]

\* ------------------------------------------------------------ CloudProvider
Providers == {"aws", "gcp", "azure", "hetzner", "custom", "local"}

\* the member of the enumeration CloudProvider(value) returns, if any
IsValidProvider(v) == v \in Providers

ProviderSetting_NoDefault(s) == Get(s, <<"cloud", "provider">>, None)

\* settings.get("cloud.provider", "local")
ProviderSetting(s) == Get(s, <<"cloud", "provider">>, "local")

\* -------------------------------------------------------------- CloudConfig
\* the attributes __init__ assigns; the instance also keeps a reference to
\* the settings store, which the properties and get_*_config read when called
ConfigAttrs(s) ==
    [provider |-> ProviderSetting(s),
     region |-> Get(s, <<"cloud", "region">>, "us-east-1"),
     project_id |-> Get(s, <<"cloud", "project_id">>, None),
     tenant_id |-> Get(s, <<"cloud", "tenant_id">>, None),
     custom_config |-> GetCustom(s)]

CloudConfigInit_Defaulting(s) ==
    IF IsValidProvider(ProviderSetting(s))
    THEN [raised |-> "None", obj |-> ConfigAttrs(s)]
    ELSE [raised |-> "None", obj |-> [ConfigAttrs(s) EXCEPT !.provider = "local"]]

\* CloudConfig(settings): the new instance, or the ValueError the enumeration
\* raises for a value that is not one of its members
CloudConfigInit(s) ==
    IF IsValidProvider(ProviderSetting(s))
    THEN [raised |-> "None", obj |-> ConfigAttrs(s)]
    ELSE [raised |-> "ValueError", obj |-> NoneObj]

IsCloud(c) == c.provider \notin {"local", "custom"}

AwsConfig_LiveRegion(c, s) ==
    IF c.provider # "aws" THEN NoneObj
    ELSE [region |-> Get(s, <<"cloud", "region">>, "us-east-1"),
          profile |-> Get(s, <<"cloud", "aws", "profile">>, None),
          role_arn |-> Get(s, <<"cloud", "aws", "role_arn">>, None)]

AwsConfig(c, s) ==
    IF c.provider # "aws" THEN NoneObj
    ELSE [region |-> c.region,
          profile |-> Get(s, <<"cloud", "aws", "profile">>, None),
          role_arn |-> Get(s, <<"cloud", "aws", "role_arn">>, None)]

GcpConfig(c, s) ==
    IF c.provider # "gcp" THEN NoneObj
    ELSE [project_id |-> c.project_id,
          region |-> c.region,
          credentials_path |-> Get(s, <<"cloud", "gcp", "credentials_path">>, None)]

AzureConfig(c, s) ==
    IF c.provider # "azure" THEN NoneObj
    ELSE [tenant_id |-> c.tenant_id,
          subscription_id |-> Get(s, <<"cloud", "azure", "subscription_id">>, None),
          resource_group |-> Get(s, <<"cloud", "azure", "resource_group">>, None)]

HetznerConfig_Unguarded(c, s) ==
    [api_token |-> Get(s, <<"cloud", "hetzner", "api_token">>, None),
     datacenter |-> Get(s, <<"cloud", "hetzner", "datacenter">>, "fsn1"),
     project_id |-> Get(s, <<"cloud", "hetzner", "project_id">>, None)]

HetznerConfig(c, s) ==
    IF c.provider # "hetzner" THEN NoneObj
    ELSE [api_token |-> Get(s, <<"cloud", "hetzner", "api_token">>, None),
          datacenter |-> Get(s, <<"cloud", "hetzner", "datacenter">>, "fsn1"),
          project_id |-> Get(s, <<"cloud", "hetzner", "project_id">>, None)]

CustomProviderConfig(c, s) ==
    IF c.provider # "custom" THEN NoneObj ELSE c.custom_config

\* the five provider views of a config, by accessor name
ProviderViews(c, s) ==
    [aws_config |-> AwsConfig(c, s),
     gcp_config |-> GcpConfig(c, s),
     azure_config |-> AzureConfig(c, s),
     hetzner_config |-> HetznerConfig(c, s),
     custom_provider_config |-> CustomProviderConfig(c, s)]

GetStorageConfig_UntypedLocal(c, s) ==
    IF ~IsCloud(c) /\ c.provider # "custom" THEN EmptyDict
    ELSE IF c.provider = "aws" THEN
        [type |-> "s3",
         bucket |-> Get(s, <<"cloud", "aws", "s3", "bucket">>, None),
         region |-> c.region]
    ELSE IF c.provider = "gcp" THEN
        [type |-> "gcs",
         bucket |-> Get(s, <<"cloud", "gcp", "storage", "bucket">>, None),
         project_id |-> c.project_id]
    ELSE IF c.provider = "azure" THEN
        [type |-> "azure",
         container |-> Get(s, <<"cloud", "azure", "storage", "container">>, None),
         account_name |-> Get(s, <<"cloud", "azure", "storage", "account_name">>, None)]
    ELSE IF c.provider = "hetzner" THEN
        [type |-> "hetzner",
         storage_box |-> Get(s, <<"cloud", "hetzner", "storage", "box_id">>, None),
         datacenter |-> Get(s, <<"cloud", "hetzner", "datacenter">>, "fsn1"),
         subdomain |-> Get(s, <<"cloud", "hetzner", "storage", "subdomain">>, None)]
    ELSE IF c.provider = "custom" THEN GetCustomKind(s, "storage")
    ELSE EmptyDict

GetStorageConfig(c, s) ==
    IF ~IsCloud(c) /\ c.provider # "custom" THEN [type |-> "local"]
    ELSE IF c.provider = "aws" THEN
        [type |-> "s3",
         bucket |-> Get(s, <<"cloud", "aws", "s3", "bucket">>, None),
         region |-> c.region]
    ELSE IF c.provider = "gcp" THEN
        [type |-> "gcs",
         bucket |-> Get(s, <<"cloud", "gcp", "storage", "bucket">>, None),
         project_id |-> c.project_id]
    ELSE IF c.provider = "azure" THEN
        [type |-> "azure",
         container |-> Get(s, <<"cloud", "azure", "storage", "container">>, None),
         account_name |-> Get(s, <<"cloud", "azure", "storage", "account_name">>, None)]
    ELSE IF c.provider = "hetzner" THEN
        [type |-> "hetzner",
         storage_box |-> Get(s, <<"cloud", "hetzner", "storage", "box_id">>, None),
         datacenter |-> Get(s, <<"cloud", "hetzner", "datacenter">>, "fsn1"),
         subdomain |-> Get(s, <<"cloud", "hetzner", "storage", "subdomain">>, None)]
    ELSE IF c.provider = "custom" THEN GetCustomKind(s, "storage")
    ELSE [type |-> "local"]

GetCacheConfig(c, s) ==
    IF ~IsCloud(c) /\ c.provider # "custom" THEN [type |-> "local"]
    ELSE IF c.provider = "aws" THEN
        [type |-> "elasticache",
         endpoint |-> Get(s, <<"cloud", "aws", "elasticache", "endpoint">>, None),
         port |-> Get(s, <<"cloud", "aws", "elasticache", "port">>, "6379")]
    ELSE IF c.provider = "gcp" THEN
        [type |-> "memorystore",
         instance |-> Get(s, <<"cloud", "gcp", "memorystore", "instance">>, None),
         region |-> c.region]
    ELSE IF c.provider = "azure" THEN
        [type |-> "cache",
         name |-> Get(s, <<"cloud", "azure", "cache", "name">>, None),
         resource_group |-> Get(s, <<"cloud", "azure", "resource_group">>, None)]
    ELSE IF c.provider = "hetzner" THEN
        [type |-> "redis",
         host |-> Get(s, <<"cloud", "hetzner", "cache", "host">>, None),
         port |-> Get(s, <<"cloud", "hetzner", "cache", "port">>, "6379"),
         password |-> Get(s, <<"cloud", "hetzner", "cache", "password">>, None)]
    ELSE IF c.provider = "custom" THEN GetCustomKind(s, "cache")
    ELSE [type |-> "local"]

GetQueueConfig_LocalAsCustom(c, s) ==
    IF c.provider = "aws" THEN
        [type |-> "sqs",
         queue_url |-> Get(s, <<"cloud", "aws", "sqs", "queue_url">>, None),
         region |-> c.region]
    ELSE IF c.provider = "gcp" THEN
        [type |-> "pubsub",
         topic |-> Get(s, <<"cloud", "gcp", "pubsub", "topic">>, None),
         subscription |-> Get(s, <<"cloud", "gcp", "pubsub", "subscription">>, None),
         project_id |-> c.project_id]
    ELSE IF c.provider = "azure" THEN
        [type |-> "servicebus",
         namespace |-> Get(s, <<"cloud", "azure", "servicebus", "namespace">>, None),
         queue |-> Get(s, <<"cloud", "azure", "servicebus", "queue">>, None)]
    ELSE IF c.provider = "hetzner" THEN
        [type |-> "rabbitmq",
         host |-> Get(s, <<"cloud", "hetzner", "queue", "host">>, None),
         port |-> Get(s, <<"cloud", "hetzner", "queue", "port">>, "5672"),
         username |-> Get(s, <<"cloud", "hetzner", "queue", "username">>, "guest"),
         password |-> Get(s, <<"cloud", "hetzner", "queue", "password">>, "guest"),
         vhost |-> Get(s, <<"cloud", "hetzner", "queue", "vhost">>, "/")]
    ELSE IF c.provider \in {"custom", "local"} THEN GetCustomKind(s, "queue")
    ELSE [type |-> "local"]

GetQueueConfig(c, s) ==
    IF ~IsCloud(c) /\ c.provider # "custom" THEN [type |-> "local"]
    ELSE IF c.provider = "aws" THEN
        [type |-> "sqs",
         queue_url |-> Get(s, <<"cloud", "aws", "sqs", "queue_url">>, None),
         region |-> c.region]
    ELSE IF c.provider = "gcp" THEN
        [type |-> "pubsub",
         topic |-> Get(s, <<"cloud", "gcp", "pubsub", "topic">>, None),
         subscription |-> Get(s, <<"cloud", "gcp", "pubsub", "subscription">>, None),
         project_id |-> c.project_id]
    ELSE IF c.provider = "azure" THEN
        [type |-> "servicebus",
         namespace |-> Get(s, <<"cloud", "azure", "servicebus", "namespace">>, None),
         queue |-> Get(s, <<"cloud", "azure", "servicebus", "queue">>, None)]
    ELSE IF c.provider = "hetzner" THEN
        [type |-> "rabbitmq",
         host |-> Get(s, <<"cloud", "hetzner", "queue", "host">>, None),
         port |-> Get(s, <<"cloud", "hetzner", "queue", "port">>, "5672"),
         username |-> Get(s, <<"cloud", "hetzner", "queue", "username">>, "guest"),
         password |-> Get(s, <<"cloud", "hetzner", "queue", "password">>, "guest"),
         vhost |-> Get(s, <<"cloud", "hetzner", "queue", "vhost">>, "/")]
    ELSE IF c.provider = "custom" THEN GetCustomKind(s, "queue")
    ELSE [type |-> "local"]

\* ------------------------------------------------- optional client libraries
AllLibs == {"boto3", "mypy_boto3", "azure", "google.cloud", "redis",
            "requests", "minio", "pika"}

Classes == {"aws", "azure", "gcp", "hetzner", "custom", "local"}

\* the libraries each implementation module imports at module level
ModuleDeps(cls) ==
    CASE cls = "aws" -> {"boto3", "mypy_boto3"}
      [] cls = "azure" -> {"azure"}
      [] cls = "gcp" -> {"redis", "google.cloud"}
      [] cls = "hetzner" -> {"requests"}
      [] cls = "custom" -> {}
      [] cls = "local" -> {}

\* whether `from fast_api_template.cloud.<cls> import ...` succeeds
Importable(cls, L) == ModuleDeps(cls) \subseteq L

\* the outcome of a call: the exception raised ("None" when it returns), the
\* value returned, and the caller-supplied factories the call invoked
Returns(v) == [raised |-> "None", result |-> v, calls |-> << >>]
Raises(e) == [raised |-> e, result |-> NoneObj, calls |-> << >>]

\* -------------------------------------------------------- LocalCloudService
LocalGetStorageClient(svc, s, L) == Returns(NoneObj)
LocalGetCacheClient(svc, s, L) == Returns(NoneObj)
LocalGetQueueClient(svc, s, L) == Returns(NoneObj)

\* ------------------------------------------------------ HetznerCloudService
HetznerAttrs(c, s) ==
    LET hc == HetznerConfig(c, s)
        h == IF Truthy(hc) THEN hc ELSE EmptyDict
    IN [api_token |-> DictGet(h, "api_token", None),
        datacenter |-> DictGet(h, "datacenter", "fsn1")]

HetznerGetStorageClient_LiveToken(svc, s, L) ==
    LET hc == HetznerConfig(svc.config, s)
        token == IF Truthy(hc) THEN DictGet(hc, "api_token", None) ELSE None
    IN IF ~TruthyStr(token) THEN Returns(NoneObj)
       ELSE Returns([client |-> "requests.Session",
                     Authorization |-> <<"Bearer", token>>,
                     ContentType |-> "application/json"])

HetznerGetStorageClient(svc, s, L) ==
    IF ~TruthyStr(svc.attrs.api_token) THEN Returns(NoneObj)
    ELSE Returns([client |-> "requests.Session",
                  Authorization |-> <<"Bearer", svc.attrs.api_token>>,
                  ContentType |-> "application/json"])

HetznerGetCacheClient_SelfHosted(svc, s, L) ==
    LET cc == GetCacheConfig(svc.config, s)
    IN IF DictGet(cc, "type", "") = "redis" /\ DictGet(cc, "host", None) # None
       THEN Returns([client |-> "redis.Redis", host |-> cc["host"]])
       ELSE Returns(NoneObj)

HetznerGetCacheClient(svc, s, L) == Returns(NoneObj)

HetznerGetQueueClient(svc, s, L) == Returns(NoneObj)

\* -------------------------------------------------------- AzureCloudService
AzureGetStorageClient(svc, s, L) ==
    LET ac == AzureConfig(svc.config, s)
    IN IF ~Truthy(ac) THEN Returns(NoneObj)
       ELSE IF "connection_string" \notin DOMAIN ac THEN Raises("KeyError")
       ELSE Returns([client |-> "BlobServiceClient.from_connection_string",
                     conn_str |-> ac["connection_string"]])

AzureGetCacheClient(svc, s, L) ==
    LET ac == AzureConfig(svc.config, s)
    IN IF ~Truthy(ac) THEN Returns(NoneObj)
       ELSE IF "subscription_id" \notin DOMAIN ac THEN Raises("KeyError")
       ELSE Returns([client |-> "RedisManagementClient",
                     credential |-> "DefaultAzureCredential",
                     subscription_id |-> ac["subscription_id"]])

AzureGetQueueClient(svc, s, L) ==
    LET ac == AzureConfig(svc.config, s)
    IN IF ~Truthy(ac) THEN Returns(NoneObj)
       ELSE IF "connection_string" \notin DOMAIN ac THEN Raises("KeyError")
       ELSE Returns([client |-> "ServiceBusClient.from_connection_string",
                     conn_str |-> ac["connection_string"]])

\* ---------------------------------------------------------- GCPCloudService
GCPGetStorageClient(svc, s, L) ==
    LET sc == GetStorageConfig(svc.config, s)
        gc == GcpConfig(svc.config, s)
    IN IF "type" \notin DOMAIN sc THEN Raises("KeyError")
       ELSE IF sc["type"] # "gcs" THEN Returns(NoneObj)
       ELSE Returns([client |-> "storage.Client",
                     project |-> sc["project_id"],
                     credentials |-> IF Truthy(gc) THEN gc["credentials_path"]
                                     ELSE None])

GCPGetCacheClient(svc, s, L) ==
    LET cc == GetCacheConfig(svc.config, s)
    IN IF "type" \notin DOMAIN cc THEN Raises("KeyError")
       ELSE IF cc["type"] # "memorystore" THEN Returns(NoneObj)
       ELSE Returns([client |-> "redis.Redis", host |-> cc["instance"],
                     port |-> "6379", decode_responses |-> "True"])

GCPGetQueueClient(svc, s, L) ==
    LET qc == GetQueueConfig(svc.config, s)
    IN IF "type" \notin DOMAIN qc THEN Raises("KeyError")
       ELSE IF qc["type"] # "pubsub" THEN Returns(NoneObj)
       ELSE Returns([client |-> "pubsub_v1.PublisherClient"])

\* ---------------------------------------------------------- AWSCloudService
\* a config object that is not a CloudConfig: the stand-in the unit tests
\* bind a service to, whose views and get_*_config results are set directly
IsStub(c) == "stub" \in DOMAIN c

\* self.config.aws_config, self.config.get_cache_config() and
\* self.config.get_queue_config() on whichever object the service is bound to
ConfigAwsConfig(c, s) == IF IsStub(c) THEN c.aws_config ELSE AwsConfig(c, s)
ConfigGetCacheConfig(c, s) == IF IsStub(c) THEN c.cache_config ELSE GetCacheConfig(c, s)
ConfigGetQueueConfig(c, s) == IF IsStub(c) THEN c.queue_config ELSE GetQueueConfig(c, s)

\* str(v): a str is returned as it is, None becomes the text 'None'
Str(v) == IF v = None THEN "'None'" ELSE v

\* moto is the value _is_using_moto() has at this call: it depends on the
\* interpreter's loaded modules, call stacks and environment, not on the
\* service, so it is an input of the call
AWSClientKwargs_AlwaysProfile(service_name, region_name, profile_name, moto) ==
    IF profile_name # None
    THEN [service_name |-> service_name, region_name |-> region_name,
          profile_name |-> profile_name]
    ELSE [service_name |-> service_name, region_name |-> region_name]

AWSClientKwargs(service_name, region_name, profile_name, moto) ==
    IF profile_name # None /\ ~moto
    THEN [service_name |-> service_name, region_name |-> region_name,
          profile_name |-> profile_name]
    ELSE [service_name |-> service_name, region_name |-> region_name]

AWSGetStorageClient(svc, s, L, moto) ==
    LET ac == ConfigAwsConfig(svc.config, s)
    IN IF ~Truthy(ac) THEN Returns(NoneObj)
       ELSE Returns([client |-> "boto3.client",
                     kwargs |-> AWSClientKwargs("s3",
                                    Str(DictGet(ac, "region", "us-east-1")),
                                    DictGet(ac, "profile", None), moto)])

AWSGetCacheClient(svc, s, L, moto) ==
    LET cc == ConfigGetCacheConfig(svc.config, s)
    IN IF "redis" \notin L THEN Returns(NoneObj)
       ELSE IF ~Truthy(cc) \/ DictGet(cc, "type", None) # "elasticache"
       THEN Returns(NoneObj)
       ELSE Returns([client |-> "redis.Redis", host |-> cc["endpoint"],
                     port |-> cc["port"], decode_responses |-> "True"])

AWSGetQueueClient_ViewRegion(svc, s, L, moto) ==
    LET ac == ConfigAwsConfig(svc.config, s)
        qc == ConfigGetQueueConfig(svc.config, s)
    IN IF ~Truthy(ac) THEN Returns(NoneObj)
       ELSE IF ~Truthy(qc) \/ DictGet(qc, "type", None) # "sqs"
       THEN Returns(NoneObj)
       ELSE Returns([client |-> "boto3.client",
                     kwargs |-> AWSClientKwargs("sqs",
                                    Str(DictGet(ac, "region", "us-east-1")),
                                    DictGet(ac, "profile", None), moto)])

AWSGetQueueClient(svc, s, L, moto) ==
    LET ac == ConfigAwsConfig(svc.config, s)
        qc == ConfigGetQueueConfig(svc.config, s)
    IN IF ~Truthy(ac) THEN Returns(NoneObj)
       ELSE IF ~Truthy(qc) \/ DictGet(qc, "type", None) # "sqs"
       THEN Returns(NoneObj)
       ELSE Returns([client |-> "boto3.client",
                     kwargs |-> AWSClientKwargs("sqs",
                                    Str(DictGet(qc, "region",
                                                DictGet(ac, "region", "us-east-1"))),
                                    DictGet(ac, "profile", None), moto)])

\* get_client_params(service_name): the region of the AWS view, overridden
\* for "sqs" by the region of a non-empty queue config; the profile whenever
\* it is not None; no str() and no look at _is_using_moto()
AWSGetClientParams(svc, s, service_name) ==
    LET ac == ConfigAwsConfig(svc.config, s)
        qc == ConfigGetQueueConfig(svc.config, s)
        view_region == IF Truthy(ac) THEN DictGet(ac, "region", "us-east-1")
                       ELSE "us-east-1"
        aws_region == IF service_name = "sqs" /\ Truthy(qc)
                      THEN DictGet(qc, "region", view_region)
                      ELSE view_region
        profile == IF Truthy(ac) THEN DictGet(ac, "profile", None) ELSE None
    IN IF profile # None
       THEN [service_name |-> service_name, region_name |-> aws_region,
             profile_name |-> profile]
       ELSE [service_name |-> service_name, region_name |-> aws_region]

\* ------------------------------------------------------- CustomCloudService
\* `config.get_*_config() or self.custom_provider_config.get(kind, {})`;
\* the right operand is evaluated only when the left one is empty, and fails
\* when custom_provider_config is None
CustomOr(derived, cpc, kind) ==
    IF Truthy(derived) THEN [raised |-> "None", v |-> derived]
    ELSE IF cpc = NoneObj THEN [raised |-> "AttributeError", v |-> NoneObj]
    ELSE [raised |-> "None", v |-> DictGet(cpc, kind, EmptyDict)]

\* CustomCloudService.__init__: the attributes it stores, or the exception
CustomInit(c, s) ==
    LET cpc == CustomProviderConfig(c, s)
        sc == CustomOr(GetStorageConfig(c, s), cpc, "storage")
        cc == CustomOr(GetCacheConfig(c, s), cpc, "cache")
        qc == CustomOr(GetQueueConfig(c, s), cpc, "queue")
    IN IF sc.raised # "None" THEN [raised |-> sc.raised, attrs |-> EmptyDict]
       ELSE IF cc.raised # "None" THEN [raised |-> cc.raised, attrs |-> EmptyDict]
       ELSE IF qc.raised # "None" THEN [raised |-> qc.raised, attrs |-> EmptyDict]
       ELSE [raised |-> "None",
             attrs |-> [custom_config |-> c.custom_config,
                        custom_provider_config |-> cpc,
                        storage_config |-> sc.v,
                        cache_config |-> cc.v,
                        queue_config |-> qc.v]]

\* `self.custom_config.get(key) or self.custom_provider_config.get(key)`
CustomFactory(svc, key) ==
    LET a == DictGet(svc.attrs.custom_config, key, NoFactory)
        cpc == svc.attrs.custom_provider_config
    IN IF a.fn # "None" THEN [raised |-> "None", f |-> a]
       ELSE IF cpc = NoneObj THEN [raised |-> "AttributeError", f |-> NoFactory]
       ELSE [raised |-> "None", f |-> DictGet(cpc, key, NoFactory)]

\* `return factory(cfg)`
CallFactory(f, cfg) ==
    [raised |-> "None", result |-> FactoryReturn(f, cfg),
     calls |-> <<[fn |-> f.fn, arg |-> cfg]>>]

CustomGetStorageClient(svc, s, L) ==
    LET sc == svc.attrs.storage_config
        fl == CustomFactory(svc, "storage_client_factory")
    IN IF ~Truthy(sc) THEN Returns(NoneObj)
       ELSE IF fl.raised # "None" THEN Raises(fl.raised)
       ELSE IF fl.f.fn # "None" /\ fl.f.callable THEN CallFactory(fl.f, sc)
       ELSE IF DictGet(sc, "type", "") \in {"s3", "minio"} THEN
            IF "minio" \in L
            THEN Returns([client |-> "minio.Minio",
                          endpoint |-> DictGet(sc, "endpoint", "localhost:9000"),
                          access_key |-> DictGet(sc, "access_key", "minioadmin"),
                          secret_key |-> DictGet(sc, "secret_key", "minioadmin"),
                          secure |-> DictGet(sc, "secure", "False")])
            ELSE Returns(NoneObj)
       ELSE Returns(NoneObj)

CustomGetCacheClient_LiveConfig(svc, s, L) ==
    LET cc == GetCacheConfig(svc.config, s)
        fl == CustomFactory(svc, "cache_client_factory")
    IN IF ~Truthy(cc) THEN Returns(NoneObj)
       ELSE IF fl.raised # "None" THEN Raises(fl.raised)
       ELSE IF fl.f.fn # "None" /\ fl.f.callable THEN CallFactory(fl.f, cc)
       ELSE IF DictGet(cc, "type", "") = "redis" THEN
            IF "redis" \in L
            THEN Returns([client |-> "redis.Redis",
                          host |-> DictGet(cc, "host", "localhost"),
                          port |-> DictGet(cc, "port", "6379"),
                          db |-> DictGet(cc, "db", "0"),
                          password |-> DictGet(cc, "password", None),
                          decode_responses |-> "True"])
            ELSE Returns(NoneObj)
       ELSE Returns(NoneObj)

CustomGetCacheClient(svc, s, L) ==
    LET cc == svc.attrs.cache_config
        fl == CustomFactory(svc, "cache_client_factory")
    IN IF ~Truthy(cc) THEN Returns(NoneObj)
       ELSE IF fl.raised # "None" THEN Raises(fl.raised)
       ELSE IF fl.f.fn # "None" /\ fl.f.callable THEN CallFactory(fl.f, cc)
       ELSE IF DictGet(cc, "type", "") = "redis" THEN
            IF "redis" \in L
            THEN Returns([client |-> "redis.Redis",
                          host |-> DictGet(cc, "host", "localhost"),
                          port |-> DictGet(cc, "port", "6379"),
                          db |-> DictGet(cc, "db", "0"),
                          password |-> DictGet(cc, "password", None),
                          decode_responses |-> "True"])
            ELSE Returns(NoneObj)
       ELSE Returns(NoneObj)

CustomGetQueueClient_NeedsAllLibs(svc, s, L) ==
    LET qc == svc.attrs.queue_config
        fl == CustomFactory(svc, "queue_client_factory")
    IN IF ~Truthy(qc) THEN Returns(NoneObj)
       ELSE IF fl.raised # "None" THEN Raises(fl.raised)
       ELSE IF fl.f.fn # "None" /\ fl.f.callable THEN CallFactory(fl.f, qc)
       ELSE IF DictGet(qc, "type", "") = "rabbitmq" THEN
            IF {"minio", "redis", "pika"} \subseteq L
            THEN Returns([client |-> "pika.channel",
                          host |-> DictGet(qc, "host", "localhost"),
                          port |-> DictGet(qc, "port", "5672"),
                          username |-> DictGet(qc, "username", "guest"),
                          password |-> DictGet(qc, "password", "guest")])
            ELSE Returns(NoneObj)
       ELSE Returns(NoneObj)

CustomGetQueueClient(svc, s, L) ==
    LET qc == svc.attrs.queue_config
        fl == CustomFactory(svc, "queue_client_factory")
    IN IF ~Truthy(qc) THEN Returns(NoneObj)
       ELSE IF fl.raised # "None" THEN Raises(fl.raised)
       ELSE IF fl.f.fn # "None" /\ fl.f.callable THEN CallFactory(fl.f, qc)
       ELSE IF DictGet(qc, "type", "") = "rabbitmq" THEN
            IF "pika" \in L
            THEN Returns([client |-> "pika.channel",
                          host |-> DictGet(qc, "host", "localhost"),
                          port |-> DictGet(qc, "port", "5672"),
                          username |-> DictGet(qc, "username", "guest"),
                          password |-> DictGet(qc, "password", "guest")])
            ELSE Returns(NoneObj)
       ELSE Returns(NoneObj)

\* ----------------------------------------------------- CloudServiceProvider
\* the lower-case letter of each capital letter
LowerCaseOf ==
    [A |-> "a", B |-> "b", C |-> "c", D |-> "d", E |-> "e", F |-> "f",
     G |-> "g", H |-> "h", I |-> "i", J |-> "j", K |-> "k", L |-> "l",
     M |-> "m", N |-> "n", O |-> "o", P |-> "p", Q |-> "q", R |-> "r",
     S |-> "s", T |-> "t", U |-> "u", V |-> "v", W |-> "w", X |-> "x",
     Y |-> "y", Z |-> "z"]

RECURSIVE Lower(_)

\* str.lower(): every capital letter of the string is replaced by its
\* lower-case letter, every other character is kept (the provider strings
\* are ASCII)
Lower(p) ==
    IF p = "" THEN ""
    ELSE (IF Head(p) \in DOMAIN LowerCaseOf THEN LowerCaseOf[Head(p)]
          ELSE Head(p)) \o Lower(Tail(p))

\* service_class(config) for an implementation class whose module imported
ServiceInit(cls, c, s) ==
    IF cls = "custom" THEN
        LET ci == CustomInit(c, s)
        IN IF ci.raised # "None" THEN [raised |-> ci.raised, obj |-> NoneObj]
           ELSE [raised |-> "None",
                 obj |-> [cls |-> cls, config |-> c, attrs |-> ci.attrs]]
    ELSE IF cls = "hetzner" THEN
        [raised |-> "None",
         obj |-> [cls |-> cls, config |-> c, attrs |-> HetznerAttrs(c, s)]]
    ELSE [raised |-> "None",
          obj |-> [cls |-> cls, config |-> c, attrs |-> EmptyDict]]

\* the name provider_map binds to cls: the implementation class when its
\* module imported, otherwise the stub subclass of CloudService defined in
\* the except branch, which leaves the three abstract methods unimplemented
\* and so cannot be instantiated
Instantiate(cls, c, s, L) ==
    IF Importable(cls, L) THEN ServiceInit(cls, c, s)
    ELSE [raised |-> "TypeError", obj |-> NoneObj]

GetCloudService(c, s, L) ==
    LET provider == IF c # NoneObj /\ TruthyStr(c.provider)
                    THEN c.provider ELSE "local"
        key == Lower(provider)
    IN IF key \notin Classes THEN [raised |-> "None", obj |-> NoneObj]
       ELSE Instantiate(key, c, s, L)

CreateService(c, s, L) ==
    LET r == GetCloudService(c, s, L)
    IN IF r.raised = "None" /\ r.obj = NoneObj
       THEN ServiceInit("local", c, s)
       ELSE r

\* ------------------------------------------------ dispatch on the instance
GetStorageClient(svc, s, L, moto) ==
    CASE svc.cls = "local" -> LocalGetStorageClient(svc, s, L)
      [] svc.cls = "hetzner" -> HetznerGetStorageClient(svc, s, L)
      [] svc.cls = "azure" -> AzureGetStorageClient(svc, s, L)
      [] svc.cls = "gcp" -> GCPGetStorageClient(svc, s, L)
      [] svc.cls = "aws" -> AWSGetStorageClient(svc, s, L, moto)
      [] svc.cls = "custom" -> CustomGetStorageClient(svc, s, L)

GetCacheClient(svc, s, L, moto) ==
    CASE svc.cls = "local" -> LocalGetCacheClient(svc, s, L)
      [] svc.cls = "hetzner" -> HetznerGetCacheClient(svc, s, L)
      [] svc.cls = "azure" -> AzureGetCacheClient(svc, s, L)
      [] svc.cls = "gcp" -> GCPGetCacheClient(svc, s, L)
      [] svc.cls = "aws" -> AWSGetCacheClient(svc, s, L, moto)
      [] svc.cls = "custom" -> CustomGetCacheClient(svc, s, L)

GetQueueClient(svc, s, L, moto) ==
    CASE svc.cls = "local" -> LocalGetQueueClient(svc, s, L)
      [] svc.cls = "hetzner" -> HetznerGetQueueClient(svc, s, L)
      [] svc.cls = "azure" -> AzureGetQueueClient(svc, s, L)
      [] svc.cls = "gcp" -> GCPGetQueueClient(svc, s, L)
      [] svc.cls = "aws" -> AWSGetQueueClient(svc, s, L, moto)
      [] svc.cls = "custom" -> CustomGetQueueClient(svc, s, L)

\* ------------------------------------------------------------------ actions
\* the record of a call
Call(op, arg, out, moto) ==
    [op |-> op, arg |-> arg, raised |-> out.raised, result |-> out.result,
     calls |-> out.calls, moto |-> moto]

\* provider values a caller can put on a duck-typed config object handed to
\* the factory: an unknown name, None, the empty string, names with capitals
ForeignProviders == {"unknown", None, "", "Local", "aWs"}

\* the config objects a caller hands to the factory
ConfigArgs ==
    IF config = NoneObj THEN {NoneObj}
    ELSE {NoneObj, config} \cup
         {[config EXCEPT !.provider = p] : p \in ForeignProviders}

\* the library environments: at most MaxMissing libraries are not installed
LibEnvs ==
    {AllLibs \ M : M \in {X \in SUBSET AllLibs : Cardinality(X) <= MaxMissing}}

\* ModuleRegistry.__init__: three empty dicts; `order` is the insertion order
\* of their keys, which the three share as they are only written together
ModuleRegistryInit ==
    [_modules |-> EmptyDict, _enabled_modules |-> EmptyDict,
     _dependencies |-> EmptyDict, order |-> << >>]

InitIn(envs) ==
    /\ libs \in envs
    /\ settings = EmptyDict
    /\ nsets = 0
    /\ config = NoneObj
    /\ service = NoneObj
    /\ last = Call("init", NoneObj, Returns(NoneObj), FALSE)
    /\ prev = Call("init", NoneObj, Returns(NoneObj), FALSE)
    /\ threads = NoneObj
    /\ registry = ModuleRegistryInit

\* every optional library is installed
Init == InitIn({AllLibs})

\* some optional libraries are not installed
InitEnv == InitIn(LibEnvs)

\* the application writes one settings key
SetSetting(k, v) ==
    /\ nsets < MaxSets
    /\ settings' = WithSetting(settings, k, v)
    /\ nsets' = nsets + 1
    /\ last' = Call("set", [key |-> k], Returns(NoneObj), FALSE)
    /\ UNCHANGED <<libs, config, service>>

\* config = CloudConfig(settings)
NewCloudConfig ==
    LET r == CloudConfigInit(settings)
    IN /\ config' = IF r.raised = "None" THEN r.obj ELSE config
       /\ last' = Call("CloudConfig", settings,
                       [raised |-> r.raised, result |-> r.obj, calls |-> << >>],
                       FALSE)
       /\ UNCHANGED <<libs, settings, nsets, service>>

\* the caller reads the five provider views of config
ReadViews ==
    /\ config # NoneObj
    /\ last' = Call("views", config, Returns(ProviderViews(config, settings)), FALSE)
    /\ UNCHANGED <<libs, settings, nsets, config, service>>

CallGetStorageConfig ==
    /\ config # NoneObj
    /\ last' = Call("get_storage_config", config,
                    Returns(GetStorageConfig(config, settings)), FALSE)
    /\ UNCHANGED <<libs, settings, nsets, config, service>>

CallGetCacheConfig_Memo ==
    /\ config # NoneObj
    /\ last' = Call("get_cache_config", config,
                    Returns(GetCacheConfig(config, settings)), FALSE)
    /\ config' = [config EXCEPT !.custom_config = GetCacheConfig(config, settings)]
    /\ UNCHANGED <<libs, settings, nsets, service>>

CallGetCacheConfig ==
    /\ config # NoneObj
    /\ last' = Call("get_cache_config", config,
                    Returns(GetCacheConfig(config, settings)), FALSE)
    /\ UNCHANGED <<libs, settings, nsets, config, service>>

CallGetQueueConfig ==
    /\ config # NoneObj
    /\ last' = Call("get_queue_config", config,
                    Returns(GetQueueConfig(config, settings)), FALSE)
    /\ UNCHANGED <<libs, settings, nsets, config, service>>

\* service = CloudServiceProvider.create_service(c)
CallCreateService(c) ==
    LET r == CreateService(c, settings, libs)
    IN /\ service' = IF r.raised = "None" THEN r.obj ELSE service
       /\ last' = Call("create_service", c,
                       [raised |-> r.raised, result |-> r.obj, calls |-> << >>],
                       FALSE)
       /\ UNCHANGED <<libs, settings, nsets, config>>

\* object construction: the heap is the sequence of the service objects
\* constructed so far, and a reference to an object is its position in it
Allocate(heap, obj) == [heap |-> Append(heap, obj), ref |-> Len(heap) + 1]

\* a = create_service(c); b = create_service(c): the caller keeps both
\* references; the second call is not made when the first one raises
CallCreateServiceTwice(c) ==
    LET r1 == CreateService(c, settings, libs)
        a1 == Allocate(<< >>, r1.obj)
        r2 == CreateService(c, settings, libs)
        a2 == Allocate(a1.heap, r2.obj)
    IN IF r1.raised # "None"
       THEN /\ last' = Call("create_service_twice", c, Raises(r1.raised), FALSE)
            /\ UNCHANGED <<libs, settings, nsets, config, service>>
       ELSE /\ service' = r2.obj
            /\ last' = Call("create_service_twice", c,
                            Returns([heap |-> a2.heap, first |-> a1.ref,
                                     second |-> a2.ref]), FALSE)
            /\ UNCHANGED <<libs, settings, nsets, config>>

\* service = <Class>(config): a caller that imported an implementation class
\* itself and binds it to the config it holds, whatever its provider
ConstructService(cls) ==
    /\ config # NoneObj
    /\ Importable(cls, libs)
    /\ LET r == ServiceInit(cls, config, settings)
       IN /\ service' = IF r.raised = "None" THEN r.obj ELSE service
          /\ last' = Call("construct", config,
                          [raised |-> r.raised, result |-> r.obj, calls |-> << >>],
                          FALSE)
    /\ UNCHANGED <<libs, settings, nsets, config>>

\* the stand-in configs the AWS unit tests build: the fixture itself, one
\* whose queue config names its own region, one whose queue config names no
\* region, one whose queue config is of another type, one without AWS view
AwsStubBase ==
    [stub |-> "MagicMock", provider |-> "aws", region |-> "us-west-2",
     aws_config |-> [region |-> "us-west-2", profile |-> "test-profile",
                     role_arn |-> "arn:aws:iam::123456789012:role/test-role"],
     storage_config |-> [type |-> "s3", bucket |-> "test-bucket",
                         region |-> "us-west-2"],
     cache_config |-> [type |-> "elasticache", endpoint |-> "test-endpoint",
                       port |-> "6379"],
     queue_config |-> [type |-> "sqs", queue_url |-> "https://sqs/test-queue",
                       region |-> "us-west-2"]]

AwsStubs ==
    {AwsStubBase,
     [AwsStubBase EXCEPT !.queue_config =
         [type |-> "sqs", queue_url |-> "https://sqs/test-queue",
          region |-> "eu-central-1"]],
     [AwsStubBase EXCEPT !.queue_config =
         [type |-> "sqs", queue_url |-> "https://sqs/test-queue"]],
     [AwsStubBase EXCEPT !.queue_config = [type |-> "rabbitmq"]],
     [AwsStubBase EXCEPT !.aws_config = NoneObj]}

\* service = AWSCloudService(mock_config)
ConstructAWSOnStub(c) ==
    /\ Importable("aws", libs)
    /\ LET r == ServiceInit("aws", c, settings)
       IN /\ service' = r.obj
          /\ last' = Call("construct", c,
                          [raised |-> r.raised, result |-> r.obj, calls |-> << >>],
                          FALSE)
    /\ UNCHANGED <<libs, settings, nsets, config>>

MotoInputs(svc) == IF svc.cls = "aws" THEN BOOLEAN ELSE {FALSE}

CallGetStorageClient_CachesClient ==
    /\ service # NoneObj
    /\ \E moto \in MotoInputs(service) :
         LET out == GetStorageClient(service, settings, libs, moto)
         IN /\ last' = Call("get_storage_client", service, out, moto)
            /\ service' = [cls |-> service.cls, config |-> service.config,
                           attrs |-> [storage_client |-> out.result]]
    /\ UNCHANGED <<libs, settings, nsets, config>>

CallGetStorageClient ==
    /\ service # NoneObj
    /\ \E moto \in MotoInputs(service) :
         last' = Call("get_storage_client", service,
                      GetStorageClient(service, settings, libs, moto), moto)
    /\ UNCHANGED <<libs, settings, nsets, config, service>>

CallGetCacheClient ==
    /\ service # NoneObj
    /\ \E moto \in MotoInputs(service) :
         last' = Call("get_cache_client", service,
                      GetCacheClient(service, settings, libs, moto), moto)
    /\ UNCHANGED <<libs, settings, nsets, config, service>>

CallGetQueueClient ==
    /\ service # NoneObj
    /\ \E moto \in MotoInputs(service) :
         last' = Call("get_queue_client", service,
                      GetQueueClient(service, settings, libs, moto), moto)
    /\ UNCHANGED <<libs, settings, nsets, config, service>>

ConfigOps ==
    \/ NewCloudConfig
    \/ ReadViews
    \/ CallGetStorageConfig
    \/ CallGetCacheConfig
    \/ CallGetQueueConfig

ClientOps ==
    \/ CallGetStorageClient
    \/ CallGetCacheClient
    \/ CallGetQueueClient

\* the pair of calls is not followed
Single == UNCHANGED <<prev, threads, registry>>

\* the call before the one being made is kept
Paired == prev' = last /\ UNCHANGED <<threads, registry>>

\* the application with every library installed: it writes settings, builds
\* configs, obtains services from the factory and calls them
Next ==
    \/ (\E k \in SettingKeys : \E v \in SettingValues(k) : SetSetting(k, v)) /\ Single
    \/ NewCloudConfig /\ Single
    \/ ReadViews /\ Single
    \/ CallGetStorageConfig /\ Single
    \/ CallGetCacheConfig /\ Single
    \/ CallGetQueueConfig /\ Single
    \/ (config # NoneObj /\ CallCreateService(config)) /\ Single
    \/ CallGetStorageClient /\ Single
    \/ CallGetCacheClient /\ Single
    \/ CallGetQueueClient /\ Single

Spec == Init /\ [][Next]_vars

\* the application where the caller constructs the implementation classes
\* itself, on the config it holds, whatever that config's provider
NextBind ==
    \/ (\E k \in SettingKeys : \E v \in SettingValues(k) : SetSetting(k, v)) /\ Single
    \/ NewCloudConfig /\ Single
    \/ (\E cls \in Classes : ConstructService(cls)) /\ Single
    \/ CallGetStorageClient /\ Single
    \/ CallGetCacheClient /\ Single
    \/ CallGetQueueClient /\ Single

SpecBind == Init /\ [][NextBind]_vars

\* the settings keys written where the library environment varies
EnvSettingKeys == {"provider", "custom"}

\* the application in an environment where libraries may be missing: every
\* service comes from the factory, which is handed any config object
NextEnv ==
    \/ (\E k \in EnvSettingKeys : \E v \in SettingValues(k) : SetSetting(k, v)) /\ Single
    \/ NewCloudConfig /\ Single
    \/ (\E c \in ConfigArgs : CallCreateService(c)) /\ Single
    \/ CallGetStorageClient /\ Single
    \/ CallGetCacheClient /\ Single
    \/ CallGetQueueClient /\ Single

\* the settings keys the AWS view and the AWS resource configs read, and the
\* values written to them: the provider is AWS or another one
AwsSettingKeys == {"provider", "region", "aws"}

AwsSettingValues(k) ==
    IF k = "provider" THEN {"aws", "local", "gcp"} ELSE SettingValues(k)

\* the application as far as the AWS service goes: the service is bound to a
\* CloudConfig by the factory or to a stand-in config by the caller
NextAws ==
    \/ (\E k \in AwsSettingKeys : \E v \in AwsSettingValues(k) : SetSetting(k, v)) /\ Single
    \/ NewCloudConfig /\ Single
    \/ (config # NoneObj /\ CallCreateService(config)) /\ Single
    \/ (\E c \in AwsStubs : ConstructAWSOnStub(c)) /\ Single
    \/ CallGetStorageClient /\ Single
    \/ CallGetCacheClient /\ Single
    \/ CallGetQueueClient /\ Single

SpecAws == Init /\ [][NextAws]_vars

\* the settings keys the Hetzner view reads, and the values written to them:
\* mappings with a token, one without a token, one with an empty token
HetznerSettingKeys == {"provider", "hetzner"}

HetznerSettingValues(k) ==
    IF k = "provider" THEN {"hetzner", "local"}
    ELSE HetznerMappings \cup {[datacenter |-> "nbg1"], [api_token |-> ""]}

\* the application as far as the Hetzner service goes: the service comes from
\* the factory or is constructed by the caller on the config it holds
NextHetzner ==
    \/ (\E k \in HetznerSettingKeys : \E v \in HetznerSettingValues(k) : SetSetting(k, v)) /\ Single
    \/ NewCloudConfig /\ Single
    \/ (config # NoneObj /\ CallCreateService(config)) /\ Single
    \/ ConstructService("hetzner") /\ Single
    \/ CallGetStorageClient /\ Single

SpecHetzner == Init /\ [][NextHetzner]_vars

\* the libraries the built-in constructors of the custom service import when
\* called, and the environments in which at most MaxMissing of them are not
\* installed
CustomLibs == {"minio", "redis", "pika"}

CustomLibEnvs ==
    {AllLibs \ M : M \in {X \in SUBSET CustomLibs : Cardinality(X) <= MaxMissing}}

\* the mappings written below cloud.custom where the built-in constructors
\* are followed: the well-known types, other types, no type, a factory entry
\* that is not callable, a factory function
CustomTypeMappings ==
    {[storage |-> [type |-> "minio"], cache |-> [type |-> "redis"],
      queue |-> [type |-> "rabbitmq"]],
     [storage |-> [type |-> "s3"], cache |-> [type |-> "memcached"],
      queue |-> [type |-> "kafka"]],
     [storage |-> [endpoint |-> "nas:9000"], cache |-> [host |-> "10.0.0.2"],
      queue |-> [host |-> "10.0.0.3"]],
     [storage |-> [type |-> "minio"], storage_client_factory |-> NotCallable],
     [storage |-> [type |-> "minio"], storage_client_factory |-> MakeClient]}

CustomSettingKeys == {"provider", "custom"}

CustomSettingValues(k) ==
    IF k = "provider" THEN {"custom"} ELSE CustomTypeMappings

InitCustom == InitIn(CustomLibEnvs)

\* the application as far as the custom service goes
NextCustom ==
    \/ (\E k \in CustomSettingKeys : \E v \in CustomSettingValues(k) : SetSetting(k, v)) /\ Single
    \/ NewCloudConfig /\ Single
    \/ (config # NoneObj /\ CallCreateService(config)) /\ Single
    \/ CallGetStorageClient /\ Single
    \/ CallGetCacheClient /\ Single
    \/ CallGetQueueClient /\ Single

SpecCustom == InitCustom /\ [][NextCustom]_vars

\* the application has loaded settings that select the custom provider
InitCustomProvider ==
    /\ libs = AllLibs
    /\ settings = WithSetting(EmptyDict, "provider", "custom")
    /\ nsets = 0
    /\ config = NoneObj
    /\ service = NoneObj
    /\ last = Call("init", NoneObj, Returns(NoneObj), FALSE)
    /\ prev = Call("init", NoneObj, Returns(NoneObj), FALSE)
    /\ threads = NoneObj
    /\ registry = ModuleRegistryInit

\* the application with the custom provider: it rewrites cloud.custom while
\* it holds a config and a service
NextSnapshot ==
    \/ (\E v \in CustomMappings : SetSetting("custom", v)) /\ Single
    \/ NewCloudConfig /\ Single
    \/ (config # NoneObj /\ CallCreateService(config)) /\ Single
    \/ CallGetStorageClient /\ Single
    \/ CallGetCacheClient /\ Single
    \/ CallGetQueueClient /\ Single

SpecSnapshot == InitCustomProvider /\ [][NextSnapshot]_vars

\* the application as far as the factory goes: it is handed any config object
\* twice in a row, in an environment where libraries may be missing
NextFactory ==
    \/ (\E k \in EnvSettingKeys : \E v \in SettingValues(k) : SetSetting(k, v)) /\ Single
    \/ NewCloudConfig /\ Single
    \/ (\E c \in ConfigArgs : CallCreateServiceTwice(c)) /\ Single

SpecFactory == InitEnv /\ [][NextFactory]_vars

\* the application as far as the CloudConfig goes: it writes settings, builds
\* configs and reads them, and each call is kept next to the one before it
NextConfig ==
    \/ (\E k \in SettingKeys : \E v \in SettingValues(k) : SetSetting(k, v)) /\ Paired
    \/ NewCloudConfig /\ Paired
    \/ ReadViews /\ Paired
    \/ CallGetStorageConfig /\ Paired
    \/ CallGetCacheConfig /\ Paired
    \/ CallGetQueueConfig /\ Paired

SpecConfig == Init /\ [][NextConfig]_vars

SpecEnv == InitEnv /\ [][NextEnv]_vars

\* ------------------------------------------------------ concurrent callers
\* the threads that share one CloudConfig and the service bound to it
Callers == {"A", "B"}

\* the code a caller thread makes its call from: application code, or a test
\* module whose file name contains test_aws_moto
Origins == {"app", "test_aws_moto"}

\* a stack frame, as far as _is_using_moto looks at its f_globals: whether
\* __name__ starts with "moto." and whether __file__ contains "test_aws_moto"
OriginFrame(o) == [moto_module |-> o = "moto", moto_test_file |-> o = "test_aws_moto"]
ServiceFrame == [moto_module |-> FALSE, moto_test_file |-> FALSE]

\* the frames of a thread: none before and after its call, the caller's code
\* and the service method during it
Stack(th) ==
    IF th.pc = "idle" THEN << >> ELSE <<OriginFrame(th.origin), ServiceFrame>>

\* AWSCloudService._is_using_moto() for the interpreter env and the stacks
\* sys._current_frames() returns, which are those of every thread
IsUsingMoto(env, stacks) ==
    IF ~env.moto_installed THEN FALSE
    ELSE IF \E st \in stacks : \E i \in DOMAIN st : st[i].moto_module THEN TRUE
    ELSE IF /\ env.pytest_loaded
            /\ \E st \in stacks : \E i \in DOMAIN st : st[i].moto_test_file
         THEN TRUE
    ELSE env.moto_env

\* the interpreters: production, a test run, a test run with MOTO_MOCK_ACTIVE=1
Envs ==
    {[moto_installed |-> FALSE, pytest_loaded |-> FALSE, moto_env |-> FALSE],
     [moto_installed |-> TRUE, pytest_loaded |-> TRUE, moto_env |-> FALSE],
     [moto_installed |-> TRUE, pytest_loaded |-> TRUE, moto_env |-> TRUE]}

CallerOps == {"get_storage_config", "get_cache_config", "get_queue_config",
              "get_storage_client", "get_cache_client", "get_queue_client"}

\* what a call on the shared config or service returns when _is_using_moto()
\* has the value moto
Outcome(op, moto) ==
    CASE op = "get_storage_config" -> Returns(GetStorageConfig(config, settings))
      [] op = "get_cache_config" -> Returns(GetCacheConfig(config, settings))
      [] op = "get_queue_config" -> Returns(GetQueueConfig(config, settings))
      [] op = "get_storage_client" -> GetStorageClient(service, settings, libs, moto)
      [] op = "get_cache_client" -> GetCacheClient(service, settings, libs, moto)
      [] op = "get_queue_client" -> GetQueueClient(service, settings, libs, moto)

IdleThread == [pc |-> "idle", op |-> "None", origin |-> "None",
               out |-> Returns(NoneObj)]

\* the settings the shared config is built from, as the writes that made them
ConcWrites ==
    {<<[k |-> "provider", v |-> "aws"], [k |-> "aws", v |-> [profile |-> "dev"]]>>,
     <<[k |-> "provider", v |-> "aws"]>>,
     <<[k |-> "provider", v |-> "custom"],
       [k |-> "custom",
        v |-> [storage |-> [type |-> "minio"], storage_client_factory |-> MakeClient]]>>,
     <<[k |-> "provider", v |-> "hetzner"], [k |-> "hetzner", v |-> [api_token |-> "tok"]]>>}

RECURSIVE Written(_)
Written(ws) ==
    IF ws = << >> THEN EmptyDict
    ELSE WithSetting(Written(SubSeq(ws, 1, Len(ws) - 1)),
                     ws[Len(ws)].k, ws[Len(ws)].v)

\* the application has loaded its settings, built the config and obtained the
\* service from the factory; no caller has started
InitConc ==
    /\ libs = AllLibs
    /\ \E ws \in ConcWrites :
          /\ settings = Written(ws)
          /\ nsets = Len(ws)
          /\ config = CloudConfigInit(Written(ws)).obj
          /\ service = CreateService(CloudConfigInit(Written(ws)).obj,
                                     Written(ws), AllLibs).obj
    /\ last = Call("init", NoneObj, Returns(NoneObj), FALSE)
    /\ prev = Call("init", NoneObj, Returns(NoneObj), FALSE)
    /\ \E env \in Envs :
          threads = [env |-> env, of |-> [t \in Callers |-> IdleThread]]
    /\ registry = ModuleRegistryInit

\* caller t starts a call of op from code of origin o
Enter(t, op, o) ==
    /\ threads.of[t].pc = "idle"
    /\ threads' = [threads EXCEPT !.of[t] =
                      [pc |-> "in", op |-> op, origin |-> o,
                       out |-> Returns(NoneObj)]]
    /\ UNCHANGED <<libs, settings, nsets, config, service, last, prev, registry>>

\* the body of the method runs: it reads the shared config and service and,
\* in _is_using_moto, the stacks of all threads
Run(t) ==
    /\ threads.of[t].pc = "in"
    /\ threads' = [threads EXCEPT
                      !.of[t].pc = "done",
                      !.of[t].out =
                          Outcome(threads.of[t].op,
                                  IsUsingMoto(threads.env,
                                      {Stack(threads.of[u]) : u \in Callers}))]
    /\ UNCHANGED <<libs, settings, nsets, config, service, last, prev, registry>>

\* the call returns to the caller's code, which ends
Return(t) ==
    /\ threads.of[t].pc = "done"
    /\ threads' = [threads EXCEPT !.of[t] = IdleThread]
    /\ UNCHANGED <<libs, settings, nsets, config, service, last, prev, registry>>

NextConc ==
    \/ \E t \in Callers : \E op \in CallerOps : \E o \in Origins : Enter(t, op, o)
    \/ \E t \in Callers : Run(t)
    \/ \E t \in Callers : Return(t)

SpecConc == InitConc /\ [][NextConc]_vars

\* ----------------------------------------------------------- ModuleRegistry
\* the depth of nested calls at which the interpreter raises RecursionError
RecursionLimit == 6

\* BaseModule(name, dependencies) where create_module_config(name) gives a
\* configuration with the given `enabled` and `dependencies`: a non-empty
\* list of the configuration replaces the constructor's; no application is
\* attached and init_app has not run
Module(name, dependencies, config_enabled, config_dependencies) ==
    [name |-> name,
     dependencies |-> IF config_dependencies # << >> THEN config_dependencies
                      ELSE dependencies,
     config_enabled |-> config_enabled,
     config_dependencies |-> config_dependencies,
     app |-> None,
     _initialized |-> FALSE]

\* the module objects the application registers: two under each name; among
\* them one that depends on itself, two that depend on each other, one whose
\* configuration disables it, one that depends on a name nobody registers,
\* two whose dependencies come from their configuration
Modules ==
    {Module("a", << >>, TRUE, << >>),
     Module("a", <<"a">>, TRUE, << >>),
     Module("b", <<"a">>, TRUE, << >>),
     Module("b", <<"a">>, FALSE, <<"a", "c">>),
     Module("c", <<"b">>, TRUE, << >>),
     Module("c", << >>, TRUE, <<"a", "d">>)}

\* the names enable_module and disable_module are called with
CalledNames == {"a", "b", "c", "d"}

\* d[k] = v
Put(d, k, v) == [x \in DOMAIN d \cup {k} |-> IF x = k THEN v ELSE d[x]]

\* register_module(module); a key that is already present keeps its place
RegisterModule(reg, module) ==
    [_modules |-> Put(reg._modules, module.name, module),
     _enabled_modules |-> Put(reg._enabled_modules, module.name,
                              module.config_enabled),
     _dependencies |-> Put(reg._dependencies, module.name, module.dependencies),
     order |-> IF module.name \in DOMAIN reg._enabled_modules THEN reg.order
               ELSE Append(reg.order, module.name)]

GetModule(reg, name) == DictGet(reg._modules, name, NoneObj)

IsModuleEnabled(reg, name) == DictGet(reg._enabled_modules, name, FALSE)

EnableModule_Unguarded(reg, name) ==
    [reg EXCEPT !._enabled_modules = Put(@, name, TRUE),
                !.order = IF name \in DOMAIN reg._enabled_modules THEN @
                          ELSE Append(@, name)]

EnableModule(reg, name) ==
    IF name \in DOMAIN reg._modules
    THEN [reg EXCEPT !._enabled_modules = Put(@, name, TRUE)]
    ELSE reg

DisableModule(reg, name) ==
    IF name \in DOMAIN reg._modules
    THEN [reg EXCEPT !._enabled_modules = Put(@, name, FALSE)]
    ELSE reg

GetDependencies(reg, name) == DictGet(reg._dependencies, name, << >>)

GetEnabledModules(reg) ==
    SelectSeq(reg.order, LAMBDA n : reg._enabled_modules[n])

GetDisabledModules(reg) ==
    SelectSeq(reg.order, LAMBDA n : ~reg._enabled_modules[n])

\* the progress of one initialize_app call: the `initialized` set, the
\* init_app invocations made so far in order, the exception raised
Started == [initialized |-> {}, log |-> << >>, raised |-> "None"]

RECURSIVE InitializeEach(_, _, _, _)
RECURSIVE InitializeModuleWithDependencies(_, _, _, _)

\* `for name in names: self._initialize_module_with_dependencies(name, ...)`
\* run in a frame at the given depth
InitializeEach(reg, names, st, depth) ==
    IF names = << >> \/ st.raised # "None" THEN st
    ELSE InitializeEach(reg, Tail(names),
             InitializeModuleWithDependencies(reg, Head(names), st, depth),
             depth)

InitializeModuleWithDependencies_SelfFirst(reg, module_name, st, depth) ==
    IF depth > RecursionLimit THEN [st EXCEPT !.raised = "RecursionError"]
    ELSE IF module_name \in st.initialized THEN st
    ELSE IF GetModule(reg, module_name) = NoneObj
            \/ ~IsModuleEnabled(reg, module_name) THEN st
    ELSE InitializeEach(reg, GetDependencies(reg, module_name),
                        [st EXCEPT !.log = Append(@, module_name),
                                   !.initialized = @ \cup {module_name}],
                        depth + 1)

\* _initialize_module_with_dependencies called from a frame at depth - 1
InitializeModuleWithDependencies(reg, module_name, st, depth) ==
    IF depth > RecursionLimit THEN [st EXCEPT !.raised = "RecursionError"]
    ELSE IF module_name \in st.initialized THEN st
    ELSE IF GetModule(reg, module_name) = NoneObj
            \/ ~IsModuleEnabled(reg, module_name) THEN st
    ELSE LET after == InitializeEach(reg, GetDependencies(reg, module_name),
                                     st, depth + 1)
         IN IF after.raised # "None" THEN after
            ELSE [after EXCEPT !.log = Append(@, module_name),
                               !.initialized = @ \cup {module_name}]

\* initialize_app(app)
InitializeApp(reg) == InitializeEach(reg, GetEnabledModules(reg), Started, 2)

\* the registry after init_app has run on the modules of a log
AfterInitApp(reg, log) ==
    [reg EXCEPT !._modules =
        [n \in DOMAIN @ |->
            IF \E i \in 1..Len(log) : log[i] = n
            THEN [@[n] EXCEPT !.app = "app", !._initialized = TRUE]
            ELSE @[n]]]

\* registry.register_module(module)
CallRegisterModule(module) ==
    /\ registry' = RegisterModule(registry, module)
    /\ last' = Call("register_module", module, Returns(NoneObj), FALSE)

\* registry.enable_module(name)
CallEnableModule(name) ==
    /\ registry' = EnableModule(registry, name)
    /\ last' = Call("enable_module", [name |-> name], Returns(NoneObj), FALSE)

\* registry.disable_module(name)
CallDisableModule(name) ==
    /\ registry' = DisableModule(registry, name)
    /\ last' = Call("disable_module", [name |-> name], Returns(NoneObj), FALSE)

\* the caller reads get_enabled_modules(), get_disabled_modules() and
\* is_module_enabled(name) for every name
CallReadModules ==
    /\ last' = Call("read_modules", NoneObj,
                    Returns([enabled |-> GetEnabledModules(registry),
                             disabled |-> GetDisabledModules(registry),
                             is_enabled |-> [n \in CalledNames |->
                                               IsModuleEnabled(registry, n)]]),
                    FALSE)
    /\ UNCHANGED registry

\* registry.initialize_app(app): the call record keeps the registry as it was
\* when the call was made and the init_app invocations in order
CallInitializeApp ==
    LET st == InitializeApp(registry)
    IN /\ registry' = AfterInitApp(registry, st.log)
       /\ last' = Call("initialize_app", registry,
                       [raised |-> st.raised, result |-> NoneObj,
                        calls |-> [i \in 1..Len(st.log) |->
                                     [fn |-> "init_app", arg |-> st.log[i]]]],
                       FALSE)

\* module.init_app(app) called by the application itself on the module
\* object registered under a name
CallInitApp(name) ==
    /\ name \in DOMAIN registry._modules
    /\ registry' = AfterInitApp(registry, <<name>>)
    /\ last' = Call("init_app", [name |-> name], Returns(NoneObj), FALSE)

\* the cloud layer is not touched
Apart == UNCHANGED <<libs, settings, nsets, config, service, prev, threads>>

\* the application as far as the module registry goes
NextRegistry ==
    \/ (\E m \in Modules : CallRegisterModule(m)) /\ Apart
    \/ (\E n \in CalledNames : CallEnableModule(n)) /\ Apart
    \/ (\E n \in CalledNames : CallDisableModule(n)) /\ Apart
    \/ CallReadModules /\ Apart
    \/ CallInitializeApp /\ Apart
    \/ (\E n \in CalledNames : CallInitApp(n)) /\ Apart

SpecRegistry == Init /\ [][NextRegistry]_vars

\* =================================================================== claims
ConfigOpNames == {"get_storage_config", "get_cache_config", "get_queue_config"}
ClientOpNames == {"get_storage_client", "get_cache_client", "get_queue_client"}

\* the provider string a settings store supplies, "None" when it supplies none
SuppliedProvider(s) == Lookup(s, <<"cloud", "provider">>, None)

\* the implementation the provider of a config names: the one of that
\* provider for the six identifiers, in any letter case, the local one
\* otherwise
ExpectedClass(c) ==
    IF c = NoneObj THEN "local"
    ELSE IF Lower(c.provider) \in Providers THEN Lower(c.provider)
    ELSE "local"

\* C1: create_service(config) returns an instance of the implementation class
\* of config's provider, bound to config, and a LocalCloudService when the
\* provider is unrecognized or omitted.
C1_CreateServiceMatchesProvider ==
    last.op = "create_service" =>
        /\ last.raised = "None"
        /\ last.result # NoneObj
        /\ last.result.cls = ExpectedClass(last.arg)
        /\ last.result.config = last.arg

\* C2: constructing a CloudConfig from settings whose cloud.provider is not a
\* member of the provider enumeration fails with the enumeration's ValueError
\* and produces no instance.
C2_UnknownProviderFailsFast ==
    (last.op = "CloudConfig" /\ SuppliedProvider(last.arg) \notin Providers \cup {None}) =>
        /\ last.raised = "ValueError"
        /\ last.result = NoneObj

C2_Witness ==
    /\ last.op = "CloudConfig"
    /\ SuppliedProvider(last.arg) = "AWS"
    /\ last.raised = "ValueError"
    /\ config # NoneObj
    /\ config.provider = "aws"

\* C3 as stated: every CloudConfig has a provider of the enumeration, and a
\* CloudConfig built from settings whose cloud.provider is unset or
\* unrecognized has provider LOCAL.
C3_UnsetOrUnrecognizedIsLocal ==
    /\ config # NoneObj => config.provider \in Providers
    /\ (last.op = "CloudConfig" /\ SuppliedProvider(last.arg) \notin Providers) =>
          (last.raised = "None" /\ last.result.provider = "local")

\* C3 as amended: every CloudConfig has a provider of the enumeration; built
\* from settings whose cloud.provider is unset it has provider LOCAL; from
\* settings whose cloud.provider is unrecognized no CloudConfig is built.
C3_UnsetIsLocal ==
    /\ config # NoneObj => config.provider \in Providers
    /\ (last.op = "CloudConfig" /\ last.raised = "None") =>
          last.result.provider \in Providers
    /\ (last.op = "CloudConfig" /\ SuppliedProvider(last.arg) = None) =>
          (last.raised = "None" /\ last.result.provider = "local")
    /\ (last.op = "CloudConfig" /\ SuppliedProvider(last.arg) \notin Providers \cup {None}) =>
          (last.raised # "None" /\ last.result = NoneObj)

C3_Witness ==
    /\ last.op = "CloudConfig"
    /\ DOMAIN last.arg # {}
    /\ SuppliedProvider(last.arg) = None
    /\ last.result # NoneObj
    /\ config.provider = "local"

\* the provider each view accessor belongs to
ViewOwner(name) ==
    CASE name = "aws_config" -> "aws"
      [] name = "gcp_config" -> "gcp"
      [] name = "azure_config" -> "azure"
      [] name = "hetzner_config" -> "hetzner"
      [] name = "custom_provider_config" -> "custom"

\* C4: for a CloudConfig whose provider is X, every provider view that
\* belongs to another provider is None, and at most one view is populated.
C4_ViewsMutuallyExclusive ==
    last.op = "views" =>
        /\ \A name \in DOMAIN last.result :
              ViewOwner(name) # last.arg.provider => last.result[name] = NoneObj
        /\ Cardinality({name \in DOMAIN last.result :
                            last.result[name] # NoneObj}) <= 1

C4_Witness ==
    /\ last.op = "views"
    /\ last.arg.provider = "azure"
    /\ last.result["azure_config"] # NoneObj
    /\ last.result["hetzner_config"] = NoneObj
    /\ Lookup(settings, <<"cloud", "hetzner", "api_token">>, None) # None

\* C5: with provider LOCAL each get_*_config returns exactly {type: "local"}
\* and each get_*_client of the local service returns None, whatever the
\* settings contain.
C5_LocalIsNoOp ==
    /\ (last.op \in ConfigOpNames /\ last.arg.provider = "local") =>
          last.result = [type |-> "local"]
    /\ (last.op \in ClientOpNames /\ last.arg.cls = "local") =>
          (last.raised = "None" /\ last.result = NoneObj)

C5_Witness ==
    /\ last.op = "get_queue_config"
    /\ last.arg.provider = "local"
    /\ "queue" \in DOMAIN Lookup(settings, <<"cloud", "custom">>, EmptyDict)
    /\ service # NoneObj
    /\ service.cls = "local"

\* C6: the Hetzner service's get_cache_client and get_queue_client return
\* None for every configuration, also when cache and queue hosts are set.
C6_HetznerNoCacheNoQueue ==
    (last.op \in {"get_cache_client", "get_queue_client"} /\ last.arg.cls = "hetzner") =>
        (last.raised = "None" /\ last.result = NoneObj)

C6_Witness ==
    /\ last.op = "get_cache_client"
    /\ last.arg.cls = "hetzner"
    /\ last.arg.config.provider = "hetzner"
    /\ Lookup(settings, <<"cloud", "hetzner", "cache", "host">>, None) # None
    /\ Lookup(settings, <<"cloud", "hetzner", "queue", "host">>, None) # None
    /\ last.result = NoneObj

\* the factory object the custom configuration of a service supplies for a
\* resource kind, NoFactory when it supplies none
SuppliedFactory(svc, kind) ==
    DictGet(svc.attrs.custom_config,
            CASE kind = "storage" -> "storage_client_factory"
              [] kind = "cache" -> "cache_client_factory"
              [] kind = "queue" -> "queue_client_factory",
            NoFactory)

\* the resource-kind config a custom service derived
DerivedConfig(svc, kind) ==
    CASE kind = "storage" -> svc.attrs.storage_config
      [] kind = "cache" -> svc.attrs.cache_config
      [] kind = "queue" -> svc.attrs.queue_config

OpOfKind(kind) ==
    CASE kind = "storage" -> "get_storage_client"
      [] kind = "cache" -> "get_cache_client"
      [] kind = "queue" -> "get_queue_client"

Kinds == {"storage", "cache", "queue"}

\* C7: on the custom service, when the custom configuration
\* supplies a storage factory function, get_storage_client invokes it once
\* with the derived storage config as its only argument and returns what it
\* returns.
C7_StorageFactoryAlwaysInvoked ==
    (/\ last.op = "get_storage_client"
     /\ last.arg.cls = "custom"
     /\ SuppliedFactory(last.arg, "storage").callable) =>
        /\ last.raised = "None"
        /\ last.calls = <<[fn |-> SuppliedFactory(last.arg, "storage").fn,
                           arg |-> DerivedConfig(last.arg, "storage")]>>
        /\ last.result = FactoryReturn(SuppliedFactory(last.arg, "storage"),
                                       DerivedConfig(last.arg, "storage"))

\* C8: on the custom service, for each resource kind, a callable
\* factory in the custom configuration is invoked and its result returned
\* before and regardless of any other test, also when the derived config is
\* empty or has no recognised type.
C8_FactoryCheckedFirst ==
    \A kind \in Kinds :
        (/\ last.op = OpOfKind(kind)
         /\ last.arg.cls = "custom"
         /\ SuppliedFactory(last.arg, kind).callable) =>
            /\ last.raised = "None"
            /\ Len(last.calls) = 1
            /\ last.calls[1].fn = SuppliedFactory(last.arg, kind).fn
            /\ last.result = FactoryReturn(SuppliedFactory(last.arg, kind),
                                           last.calls[1].arg)

\* the libraries a service of class cls needs for the client of a kind: those
\* its module imports, and those the method imports when called
NeededLibs(cls, kind) ==
    ModuleDeps(cls) \cup
    (IF cls = "custom" /\ kind = "storage" THEN {"minio"}
     ELSE IF cls = "custom" /\ kind = "cache" THEN {"redis"}
     ELSE IF cls = "custom" /\ kind = "queue" THEN {"pika"}
     ELSE IF cls = "aws" /\ kind = "cache" THEN {"redis"}
     ELSE {})

\* C9: when a provider's client library is unavailable, create_service for
\* that provider still returns a service, each get_*_client on it returns
\* None, and nothing is raised on the way.
C9_MissingLibraryDegrades ==
    /\ (last.op = "create_service" /\ ~(ModuleDeps(ExpectedClass(last.arg)) \subseteq libs)) =>
          (last.raised = "None" /\ last.result # NoneObj)
    /\ \A kind \in Kinds :
          (/\ last.op = OpOfKind(kind)
           /\ ~(NeededLibs(last.arg.cls, kind) \subseteq libs)) =>
              (last.raised = "None" /\ last.result = NoneObj)

\* C10: on the Azure service, when the configuration supplies no connection
\* string, get_storage_client and get_queue_client return None and do not
\* raise.
C10_AzureNoConnectionString ==
    (/\ last.op \in {"get_storage_client", "get_queue_client"}
     /\ last.arg.cls = "azure"
     /\ Lookup(settings, <<"cloud", "azure", "connection_string">>, None) = None) =>
        (last.raised = "None" /\ last.result = NoneObj)

\* the resource kind a get_*_config method derives
KindOfConfigOp(op) ==
    CASE op = "get_storage_config" -> "storage"
      [] op = "get_cache_config" -> "cache"
      [] op = "get_queue_config" -> "queue"

\* C11: for every provider and each get_*_config, a call leaves the
\* CloudConfig and the settings as they were (it stores nothing it derived),
\* and a call that follows a call of the same method on the same CloudConfig
\* with the settings unchanged returns an equal mapping.
C11_DerivationIdempotent ==
    [][last'.op \in ConfigOpNames =>
          /\ config' = config
          /\ settings' = settings
          /\ (last.op = last'.op /\ last.arg = last'.arg) =>
                last'.result = last.result]_vars

C11_Witness ==
    /\ last.op = "get_cache_config"
    /\ prev.op = "get_cache_config"
    /\ prev.arg = last.arg
    /\ last.arg.provider = "custom"
    /\ "type" \in DOMAIN last.result
    /\ last.result = prev.result
    /\ config.custom_config # last.result

\* C12 as stated: for every provider and every settings content the mapping
\* each get_*_config returns has a `type` key.
C12_TypeAlwaysPresent ==
    last.op \in ConfigOpNames => "type" \in DOMAIN last.result

\* C12 as amended: for every provider but CUSTOM the mapping each
\* get_*_config returns has a `type` key; for CUSTOM it has one exactly when
\* the caller's sub-mapping in the settings has one.
C12_TypePresentUnlessCustom ==
    last.op \in ConfigOpNames =>
        IF last.arg.provider # "custom"
        THEN "type" \in DOMAIN last.result /\ last.result["type"] # None
        ELSE ("type" \in DOMAIN last.result) <=>
             ("type" \in DOMAIN Lookup(settings,
                                       <<"cloud", "custom", KindOfConfigOp(last.op)>>,
                                       EmptyDict))

C12_Witness ==
    /\ last.op = "get_storage_config"
    /\ last.arg.provider = "custom"
    /\ last.result = [endpoint |-> "nas:9000"]
    /\ prev.op = "get_queue_config"
    /\ prev.result = [type |-> "rabbitmq"]

\* C13: for provider CUSTOM each get_*_config returns the storage, cache or
\* queue sub-mapping of the custom configuration mapping the CloudConfig
\* holds, with the same keys and values.
C13_CustomVerbatim ==
    (last.op \in ConfigOpNames /\ last.arg.provider = "custom") =>
        last.result = DictGet(last.arg.custom_config, KindOfConfigOp(last.op),
                              EmptyDict)

\* everything a CloudConfig shows its callers
Shown(c, s) ==
    [attrs |-> c,
     views |-> ProviderViews(c, s),
     storage |-> GetStorageConfig(c, s),
     cache |-> GetCacheConfig(c, s),
     queue |-> GetQueueConfig(c, s)]

\* C14: once a CloudConfig exists, a change of the settings leaves every
\* attribute, provider view and get_*_config result of that instance as it
\* was before the change.
C14_ImmutableAfterConstruction ==
    [][(config # NoneObj /\ settings' # settings) =>
          /\ config' = config
          /\ Shown(config', settings') = Shown(config, settings)]_vars

\* C15: two create_service calls with the same config each return a service
\* bound to that config, the two are distinct objects newly constructed by
\* the calls, and no call raises.
C15_FreshInstances ==
    last.op = "create_service_twice" =>
        /\ last.raised = "None"
        /\ last.result.first # last.result.second
        /\ Len(last.result.heap) = 2
        /\ \A i \in {last.result.first, last.result.second} :
              /\ last.result.heap[i].cls = ExpectedClass(last.arg)
              /\ last.result.heap[i].config = last.arg

\* the AWS view and the queue config of the config a service is bound to
BoundAwsView(svc) == ConfigAwsConfig(svc.config, settings)
BoundQueueConfig(svc) == ConfigGetQueueConfig(svc.config, settings)

\* C16: for a CloudConfig with provider AWS, get_storage_client of the AWS
\* service constructs the S3 client with the region that the region field of
\* get_storage_config() carries.
C16_StorageRegionRoundTrip ==
    (/\ last.op = "get_storage_client"
     /\ last.arg.cls = "aws"
     /\ ~IsStub(last.arg.config)
     /\ last.arg.config.provider = "aws") =>
        /\ last.raised = "None"
        /\ last.result # NoneObj
        /\ last.result.client = "boto3.client"
        /\ last.result.kwargs.service_name = "s3"
        /\ last.result.kwargs.region_name =
              GetStorageConfig(last.arg.config, settings)["region"]

C16_Witness ==
    /\ last.op = "get_storage_client"
    /\ last.arg.cls = "aws"
    /\ ~IsStub(last.arg.config)
    /\ GetStorageConfig(last.arg.config, settings)["region"] = "us-west-2"
    /\ last.result.kwargs.region_name = "us-west-2"

\* the region get_queue_client is to use: the one of the queue config when it
\* carries one, otherwise the one of the AWS view
QueueRegion(svc) ==
    IF "region" \in DOMAIN BoundQueueConfig(svc)
    THEN BoundQueueConfig(svc)["region"]
    ELSE BoundAwsView(svc)["region"]

\* C19: get_queue_client of the AWS service returns None when the AWS view is
\* absent or the queue config type is not "sqs"; otherwise it constructs the
\* SQS client with the region of the queue config when that carries one, and
\* with the region of the AWS view only when it carries none.
C19_QueueRegionOverride ==
    (last.op = "get_queue_client" /\ last.arg.cls = "aws") =>
        /\ last.raised = "None"
        /\ IF \/ BoundAwsView(last.arg) = NoneObj
              \/ DictGet(BoundQueueConfig(last.arg), "type", None) # "sqs"
           THEN last.result = NoneObj
           ELSE /\ last.result # NoneObj
                /\ last.result.kwargs.service_name = "sqs"
                /\ last.result.kwargs.region_name = QueueRegion(last.arg)

C19_Witness ==
    /\ last.op = "get_queue_client"
    /\ last.arg.cls = "aws"
    /\ BoundAwsView(last.arg) # NoneObj
    /\ BoundAwsView(last.arg)["region"] = "us-west-2"
    /\ DictGet(BoundQueueConfig(last.arg), "region", None) = "eu-central-1"
    /\ last.result # NoneObj
    /\ last.result.kwargs.region_name = "eu-central-1"

\* C20: where the AWS service constructs a storage or queue client, the
\* constructor receives the profile of the AWS view exactly when that profile
\* is not None and no mocking framework is detected; the service name and the
\* region it receives do not depend on the detection.
C20_ProfileUnlessMocked ==
    (/\ last.op \in {"get_storage_client", "get_queue_client"}
     /\ last.arg.cls = "aws"
     /\ last.result # NoneObj) =>
        LET profile == DictGet(BoundAwsView(last.arg), "profile", None)
            kw == last.result.kwargs
        IN /\ ("profile_name" \in DOMAIN kw) <=> (profile # None /\ ~last.moto)
           /\ "profile_name" \in DOMAIN kw => kw["profile_name"] = profile
           /\ DOMAIN kw \ {"profile_name"} = {"service_name", "region_name"}
           /\ kw["service_name"] =
                 (IF last.op = "get_storage_client" THEN "s3" ELSE "sqs")
           /\ kw["region_name"] =
                 (IF last.op = "get_storage_client"
                  THEN BoundAwsView(last.arg)["region"]
                  ELSE QueueRegion(last.arg))

C20_Witness ==
    /\ last.op = "get_storage_client"
    /\ last.arg.cls = "aws"
    /\ ~IsStub(last.arg.config)
    /\ DictGet(BoundAwsView(last.arg), "profile", None) = "dev"
    /\ last.moto
    /\ DOMAIN last.result.kwargs = {"service_name", "region_name"}

\* the `type` values the client constructors of an implementation are
\* written for, by resource kind
ExpectedTypes(cls, kind) ==
    CASE cls = "aws" ->
            (CASE kind = "storage" -> {"s3"}
               [] kind = "cache" -> {"elasticache"}
               [] kind = "queue" -> {"sqs"})
      [] cls = "gcp" ->
            (CASE kind = "storage" -> {"gcs"}
               [] kind = "cache" -> {"memorystore"}
               [] kind = "queue" -> {"pubsub"})
      [] cls = "azure" ->
            (CASE kind = "storage" -> {"azure"}
               [] kind = "cache" -> {"cache"}
               [] kind = "queue" -> {"servicebus"})
      [] cls = "hetzner" ->
            (CASE kind = "storage" -> {"hetzner"}
               [] kind = "cache" -> {}
               [] kind = "queue" -> {})
      [] cls = "custom" ->
            (CASE kind = "storage" -> {"s3", "minio"}
               [] kind = "cache" -> {"redis"}
               [] kind = "queue" -> {"rabbitmq"})
      [] cls = "local" -> {}

\* the resource-kind config a service works from: the one the custom service
\* stored, the one the bound config derives for the others
ServiceKindConfig(svc, kind) ==
    IF svc.cls = "custom" THEN DerivedConfig(svc, kind)
    ELSE CASE kind = "storage" -> GetStorageConfig(svc.config, settings)
           [] kind = "cache" -> GetCacheConfig(svc.config, settings)
           [] kind = "queue" -> GetQueueConfig(svc.config, settings)

\* C18: for every implementation and resource kind, when the resource-kind
\* config has a `type` other than the one the implementation constructs
\* clients for, get_*_client returns None, invokes nothing and does not raise.
C18_TypeMismatchIsAbsence ==
    \A kind \in Kinds :
        (/\ last.op = OpOfKind(kind)
         /\ ~IsStub(last.arg.config)
         /\ "type" \in DOMAIN ServiceKindConfig(last.arg, kind)
         /\ ServiceKindConfig(last.arg, kind)["type"] \notin
                ExpectedTypes(last.arg.cls, kind)) =>
            /\ last.raised = "None"
            /\ last.result = NoneObj
            /\ last.calls = << >>

\* what the call of caller t returns when no other thread is running
OutcomeAlone(t) ==
    Outcome(threads.of[t].op,
            IsUsingMoto(threads.env, {Stack(threads.of[t])}))

\* C17: under every interleaving of get_*_config and get_*_client calls made
\* by several callers on a shared CloudConfig and service, each call returns
\* what it returns when it runs alone.
C17_CallersDoNotInterfere ==
    threads # NoneObj =>
        \A t \in Callers :
            threads.of[t].pc = "done" => threads.of[t].out = OutcomeAlone(t)

\* C21: where the AWS service constructs a storage or queue client, the
\* parameter set the constructor receives equals the one get_client_params
\* returns for "s3", respectively "sqs", on the same bound config.
C21_ClientsShareParamsHelper ==
    (/\ last.op \in {"get_storage_client", "get_queue_client"}
     /\ last.arg.cls = "aws"
     /\ last.raised = "None"
     /\ last.result # NoneObj) =>
        last.result.kwargs =
            AWSGetClientParams(last.arg, settings,
                IF last.op = "get_storage_client" THEN "s3" ELSE "sqs")

\* the API token the Hetzner view of config c carries; None when the view is
\* absent
ViewToken(c, s) ==
    IF HetznerConfig(c, s) = NoneObj THEN None ELSE HetznerConfig(c, s).api_token

\* C22: get_storage_client of a Hetzner service returns None exactly when the
\* Hetzner view of its config carried no API token (None or empty, or no view
\* at all) when the service was constructed, and otherwise a session whose
\* Authorization header is "Bearer <that token>"; later writes to the
\* settings do not change what it returns.
C22_HetznerBearerSession ==
    [][/\ (/\ last.op \in {"construct", "create_service"}
           /\ last.raised = "None"
           /\ last'.op = "get_storage_client"
           /\ last'.arg = last.result
           /\ last'.arg.cls = "hetzner") =>
              /\ last'.raised = "None"
              /\ IF ViewToken(last'.arg.config, settings) \in {None, ""}
                 THEN last'.result = NoneObj
                 ELSE /\ last'.result # NoneObj
                      /\ last'.result.client = "requests.Session"
                      /\ last'.result.Authorization =
                            <<"Bearer", ViewToken(last'.arg.config, settings)>>
       /\ (/\ service # NoneObj
           /\ service.cls = "hetzner"
           /\ service' = service) =>
              GetStorageClient(service, settings', libs', FALSE) =
                  GetStorageClient(service, settings, libs, FALSE)]_vars

C22_Witness ==
    /\ last.op = "get_storage_client"
    /\ last.arg.cls = "hetzner"
    /\ ViewToken(last.arg.config, settings) = "tok"
    /\ last.result # NoneObj
    /\ last.result.Authorization = <<"Bearer", "tok">>

\* the `type` values for which the custom service has a built-in constructor
\* of a kind, the library that constructor imports, and what it constructs
BuiltinTypes(kind) ==
    CASE kind = "storage" -> {"s3", "minio"}
      [] kind = "cache" -> {"redis"}
      [] kind = "queue" -> {"rabbitmq"}

BuiltinLib(kind) ==
    CASE kind = "storage" -> "minio"
      [] kind = "cache" -> "redis"
      [] kind = "queue" -> "pika"

BuiltinClient(kind) ==
    CASE kind = "storage" -> "minio.Minio"
      [] kind = "cache" -> "redis.Redis"
      [] kind = "queue" -> "pika.channel"

\* C23: on a custom service of the custom provider whose configuration
\* supplies no callable factory for a kind, get_<kind>_client raises nothing,
\* calls no factory, and constructs the built-in client of that kind exactly
\* when the type of the kind's config is one of the kind's well-known types
\* and the library of that kind is installed; otherwise it returns None,
\* whatever the other libraries.
C23_BuiltinChosenByType ==
    \A kind \in Kinds :
        (/\ last.op = OpOfKind(kind)
         /\ last.arg.cls = "custom"
         /\ last.arg.config.provider = "custom"
         /\ ~SuppliedFactory(last.arg, kind).callable) =>
            /\ last.raised = "None"
            /\ last.calls = << >>
            /\ IF /\ DictGet(DerivedConfig(last.arg, kind), "type", None)
                        \in BuiltinTypes(kind)
                  /\ BuiltinLib(kind) \in libs
               THEN /\ last.result # NoneObj
                    /\ last.result.client = BuiltinClient(kind)
               ELSE last.result = NoneObj

C23_Witness ==
    /\ last.op = "get_queue_client"
    /\ last.arg.cls = "custom"
    /\ "minio" \notin libs
    /\ DerivedConfig(last.arg, "storage") = [type |-> "minio"]
    /\ DerivedConfig(last.arg, "queue") = [type |-> "rabbitmq"]
    /\ last.result # NoneObj
    /\ last.result.client = "pika.channel"

\* C24: a service is constructed bound to the config it was handed, and a
\* get_storage_client, get_cache_client or get_queue_client call changes
\* neither the service (its class, its config, its stored attributes), nor
\* the CloudConfig, nor the settings behind it.
C24_ServiceStaysBound ==
    [][/\ (last'.op \in {"construct", "create_service"} /\ last'.raised = "None") =>
              (service' = last'.result /\ service'.config = last'.arg)
       /\ last'.op \in ClientOpNames =>
              /\ last'.arg = service
              /\ service' = service
              /\ service'.config = service.config
              /\ config' = config
              /\ settings' = settings]_vars

C24_Witness ==
    /\ last.op = "get_storage_client"
    /\ last.result # NoneObj
    /\ service = last.arg
    /\ service.cls = "custom"
    /\ service.config = config
    /\ service.attrs.storage_config = GetStorageConfig(config, settings)

\* the registry as it was when the initialize_app call of `last` was made,
\* and the names init_app was invoked on, in order
InitRegistry == last.arg
InitLog == [i \in 1..Len(last.calls) |-> last.calls[i].arg]

\* how many times init_app was invoked on the module registered as name
Invocations(name) == Cardinality({i \in 1..Len(InitLog) : InitLog[i] = name})

\* the names registered and enabled in a registry
EnabledRegistered(reg) ==
    {n \in DOMAIN reg._modules : IsModuleEnabled(reg, n)}

\* the names in the dependency list of the module registered as name
DependencyNames(reg, name) ==
    {GetDependencies(reg, name)[i] : i \in 1..Len(GetDependencies(reg, name))}

\* C25: within one initialize_app call, whenever init_app is invoked on a
\* module M and on a dependency D of M, the invocation on D comes before the
\* one on M.
C25_DependenciesInitializedFirst ==
    last.op = "initialize_app" =>
        \A i, j \in 1..Len(InitLog) :
            InitLog[i] \in DependencyNames(InitRegistry, InitLog[j]) => i < j

C25_Witness ==
    /\ last.op = "initialize_app"
    /\ last.raised = "None"
    /\ InitRegistry.order = <<"c", "b", "a">>
    /\ InitLog = <<"a", "b", "c">>

\* C26: within one initialize_app call, init_app is invoked exactly once on
\* every registered module that is enabled and never on any other name.
C26_EachEnabledModuleOnce ==
    last.op = "initialize_app" =>
        \A n \in CalledNames :
            Invocations(n) =
                (IF n \in EnabledRegistered(InitRegistry) THEN 1 ELSE 0)

\* the set of elements of a sequence
Range(seq) == {seq[i] : i \in 1..Len(seq)}

\* C27: get_enabled_modules and get_disabled_modules report disjoint names,
\* each once, which together are the registered names; enable_module and
\* disable_module of an unregistered name change nothing; and after each
\* call is_module_enabled(name) is what the call set it to when the call was
\* a register, enable or disable of that registered name and what it was
\* before otherwise.
C27_EnabledDisabledPartition ==
    [][/\ last'.op = "read_modules" =>
              /\ Range(last'.result.enabled) \cap Range(last'.result.disabled) = {}
              /\ Range(last'.result.enabled) \cup Range(last'.result.disabled)
                    = DOMAIN registry._modules
              /\ Len(last'.result.enabled) + Len(last'.result.disabled)
                    = Cardinality(DOMAIN registry._modules)
              /\ \A n \in CalledNames :
                    last'.result.is_enabled[n] = (n \in Range(last'.result.enabled))
       /\ (/\ last'.op \in {"enable_module", "disable_module"}
           /\ last'.arg.name \notin DOMAIN registry._modules) =>
              registry' = registry
       /\ \A n \in CalledNames :
              IsModuleEnabled(registry', n) =
                  (IF last'.op = "register_module" /\ last'.arg.name = n
                   THEN last'.arg.config_enabled
                   ELSE IF /\ last'.op \in {"enable_module", "disable_module"}
                           /\ last'.arg.name = n
                           /\ n \in DOMAIN registry._modules
                   THEN last'.op = "enable_module"
                   ELSE IsModuleEnabled(registry, n))]_vars

C27_Witness ==
    /\ last.op = "read_modules"
    /\ last.result.enabled = <<"b">>
    /\ last.result.disabled = <<"a">>
    /\ registry._modules["b"].config_enabled = FALSE
    /\ registry._modules["a"].config_enabled = TRUE

\* C28: every initialize_app call runs to its end: it returns, and is not
\* cut off by the interpreter when the nesting of calls reaches its limit.
C28_InitializeAppTerminates ==
    last.op = "initialize_app" => last.raised = "None"

\* C30: within one initialize_app call, an enabled registered module that
\* declares a dependency which is disabled or not registered is initialized
\* all the same: the call raises nothing, init_app runs on the module, and
\* it does not run on that dependency.
C30_MissingDependencySkipped ==
    last.op = "initialize_app" =>
        \A m \in EnabledRegistered(InitRegistry) :
            \A d \in DependencyNames(InitRegistry, m) \ EnabledRegistered(InitRegistry) :
                /\ last.raised = "None"
                /\ Invocations(m) = 1
                /\ Invocations(d) = 0

\* get_<kind>_config() of a config and get_<kind>_client() of a service
ConfigOfKind(c, s, kind) ==
    CASE kind = "storage" -> GetStorageConfig(c, s)
      [] kind = "cache" -> GetCacheConfig(c, s)
      [] kind = "queue" -> GetQueueConfig(c, s)

ClientOfKind(svc, s, L, kind) ==
    CASE kind = "storage" -> GetStorageClient(svc, s, L, FALSE)
      [] kind = "cache" -> GetCacheClient(svc, s, L, FALSE)
      [] kind = "queue" -> GetQueueClient(svc, s, L, FALSE)

\* C29: a custom service of the custom provider stores at construction the
\* config of each kind that its CloudConfig derives then (or, when that is
\* empty, the kind's entry of the custom configuration); a factory it calls
\* is handed that stored config; and a write to the settings changes neither
\* the service nor the outcome of any get_*_client call on it, while
\* get_*_config() of the bound CloudConfig returns the value written.
C29_ConfigsDerivedOnce ==
    [][/\ (/\ last'.op = "create_service"
           /\ last'.raised = "None"
           /\ service'.cls = "custom") =>
              \A kind \in Kinds :
                  DerivedConfig(service', kind) =
                      (IF Truthy(ConfigOfKind(service'.config, settings, kind))
                       THEN ConfigOfKind(service'.config, settings, kind)
                       ELSE DictGet(service'.config.custom_config, kind, EmptyDict))
       /\ \A kind \in Kinds :
              (/\ last'.op = OpOfKind(kind)
               /\ last'.arg.cls = "custom"
               /\ last'.calls # << >>) =>
                  last'.calls[1].arg = DerivedConfig(service, kind)
       /\ (/\ service # NoneObj
           /\ service.cls = "custom"
           /\ settings' # settings) =>
              /\ service' = service
              /\ \A kind \in Kinds :
                    /\ ClientOfKind(service, settings', libs', kind)
                          = ClientOfKind(service, settings, libs, kind)
                    /\ ConfigOfKind(service.config, settings', kind)
                          = GetCustomKind(settings', kind)]_vars

C29_Witness ==
    /\ last.op = "get_cache_client"
    /\ last.arg.cls = "custom"
    /\ last.arg = service
    /\ last.calls # << >>
    /\ last.calls[1].arg = [type |-> "redis"]
    /\ service.attrs.cache_config = [type |-> "redis"]
    /\ GetCacheConfig(service.config, settings) = EmptyDict

====
